---- MODULE Spec2Model ----
(***************************************************************************)
(* Model of two programs of the NVIDIA container toolkit:                  *)
(*   - `nvidia-ctk cdi generate` (package generate: validateFlags, run,    *)
(*     generateSpec, generateDeviceSpecs, createAllDevice, writeToOutput,  *)
(*     formatFromFilename), and                                            *)
(*   - the `nvidia-cdi-hook` dispatcher (main).                            *)
(* Strings that the code inspects character by character (the output path, *)
(* the format flag) are sequences of one-character strings.                *)
(***************************************************************************)
EXTENDS Integers, Sequences, FiniteSets, TLC

VARIABLES prog, pc, flags, topo, cfg, nvml, idx, deviceSpecs, allEdits,
          hookInput, spec, err, out, log, exitCode, hookArgs, hook

vars == <<prog, pc, flags, topo, cfg, nvml, idx, deviceSpecs, allEdits,
          hookInput, spec, err, out, log, exitCode, hookArgs, hook>>

----------------------------------------------------------------------------
(* Bounds of the model *)

\* most physical devices on the host
MaxDevices == 2
\* most partition slots of one physical device
MaxMigSlots == 2
\* most IPC sockets found on the host
MaxSockets == 1

----------------------------------------------------------------------------
(* Strings as character sequences *)

formatJSON == <<"j", "s", "o", "n">>
formatYAML == <<"y", "a", "m", "l">>

UpperChars == <<"A","B","C","D","E","F","G","H","I","J","K","L","M",
                "N","O","P","Q","R","S","T","U","V","W","X","Y","Z">>
LowerChars == <<"a","b","c","d","e","f","g","h","i","j","k","l","m",
                "n","o","p","q","r","s","t","u","v","w","x","y","z">>

ToLowerChar(c) ==
    IF \E k \in 1..26 : UpperChars[k] = c
    THEN LowerChars[CHOOSE k \in 1..26 : UpperChars[k] = c]
    ELSE c

\* strings.ToLower
ToLower(s) == [k \in 1..Len(s) |-> ToLowerChar(s[k])]

\* filepath.Ext: the suffix starting at the last dot of the last path
\* element, empty when that element has no dot
RECURSIVE ExtFrom(_, _)
ExtFrom(path, k) ==
    IF k < 1 \/ path[k] = "/" THEN <<>>
    ELSE IF path[k] = "." THEN SubSeq(path, k, Len(path))
    ELSE ExtFrom(path, k - 1)

Ext(path) == ExtFrom(path, Len(path))

formatFromFilename(filename) ==
    LET ext == ToLower(Ext(filename)) IN
    IF ext = <<".">> \o formatJSON THEN formatJSON
    ELSE IF ext = <<".">> \o formatYAML THEN formatYAML
    ELSE IF ext = <<".", "y", "m", "l">> THEN formatYAML
    ELSE <<>>

----------------------------------------------------------------------------
(* Container edits *)

EmptyEdits == [env |-> <<>>, deviceNodes |-> <<>>, hooks |-> <<>>, mounts |-> <<>>]

\* cdi.ContainerEdits{}: the embedded *specs.ContainerEdits is nil
ZeroEdits == [isNil |-> TRUE, e |-> EmptyEdits]

\* cdi.ContainerEdits{ContainerEdits: &x}
Wrap(x) == [isNil |-> FALSE, e |-> x]

\* (*cdi.ContainerEdits).Append: a nil argument leaves the receiver alone,
\* a nil receiver is allocated, then the four lists are concatenated
EditsAppend(r, o) ==
    IF o.isNil THEN r
    ELSE [isNil |-> FALSE,
          e |-> [env         |-> r.e.env \o o.e.env,
                 deviceNodes |-> r.e.deviceNodes \o o.e.deviceNodes,
                 hooks       |-> r.e.hooks \o o.e.hooks,
                 mounts      |-> r.e.mounts \o o.e.mounts]]

MountOptions == <<"ro", "nosuid", "nodev", "bind">>

\* what the per-device discoverers find
FullGPUEdits(i) ==
    [env |-> <<>>,
     deviceNodes |-> <<"/dev/nvidia" \o ToString(i), "/dev/nvidiactl">>,
     hooks |-> <<>>,
     mounts |-> <<>>]

MigDeviceEdits(i, j) ==
    [env |-> <<>>,
     deviceNodes |-> <<"/dev/nvidia" \o ToString(i),
                       "/dev/nvidia-caps/gi" \o ToString(i) \o "-" \o ToString(j),
                       "/dev/nvidiactl">>,
     hooks |-> <<>>,
     mounts |-> <<>>]

\* what the IPC discoverer finds on a host with n sockets; the field from
\* records which discoverer a mount came from and is not part of the mount
IPCEdits(n) ==
    [env |-> <<>>,
     deviceNodes |-> <<>>,
     hooks |-> <<>>,
     mounts |-> [k \in 1..n |->
                   [path |-> "/run/nvidia/socket" \o ToString(k),
                    options |-> MountOptions, from |-> "ipc"]]]

\* what the common discoverer finds
CommonDiscovered ==
    [env |-> <<>>,
     deviceNodes |-> <<>>,
     hooks |-> <<[name |-> "update-ldcache", args |-> <<>>]>>,
     mounts |-> <<[path |-> "/usr/lib/libcuda.so",
                   options |-> MountOptions, from |-> "common"]>>]

RECURSIVE AllDeviceNodes(_)
AllDeviceNodes(ds) ==
    IF ds = <<>> THEN <<>>
    ELSE Head(ds).ContainerEdits.deviceNodes \o AllDeviceNodes(Tail(ds))

\* the hooks of the device-folder permission discoverer for a device list
PermissionHooks(ds) ==
    [env |-> <<>>,
     deviceNodes |-> <<>>,
     hooks |-> <<[name |-> "chmod", args |-> AllDeviceNodes(ds)]>>,
     mounts |-> <<>>]

\* discover.Merge followed by edits.FromDiscoverer: accessor by accessor,
\* the first discoverer's entries and then the second's
MergedEdits(a, b) ==
    [env         |-> a.env \o b.env,
     deviceNodes |-> a.deviceNodes \o b.deviceNodes,
     hooks       |-> a.hooks \o b.hooks,
     mounts      |-> a.mounts \o b.mounts]

\* variant: the loop appends to copies of the mounts
AddNoexec_OnCopies(e) == e

\* the post-processing loop over ipcEdits.Mounts, a slice of pointers: the
\* assignment to s.Options reaches the mount itself
AddNoexec(e) ==
    [e EXCEPT !.mounts =
        [k \in 1..Len(e.mounts) |->
            [e.mounts[k] EXCEPT !.options = Append(@, "noexec")]]]

\* variant: the parent's index is left out of the name
migName_NoParent(i, j) == "mig" \o ToString(j)

gpuName(i) == "gpu" \o ToString(i)
migName(i, j) == "mig" \o ToString(i) \o ":" \o ToString(j)

\* createAllDevice: the result is absent when dereferencing the folded
\* edits panics
RECURSIVE FoldEdits(_, _)
FoldEdits(edits, ds) ==
    IF ds = <<>> THEN edits
    ELSE FoldEdits(EditsAppend(edits, Wrap(Head(ds).ContainerEdits)), Tail(ds))

createAllDevice(ds) ==
    LET edits == FoldEdits(ZeroEdits, ds) IN
    [panic |-> edits.isNil,
     device |-> [name |-> "all", ContainerEdits |-> edits.e]]

----------------------------------------------------------------------------
(* Inputs *)

DeviceKinds ==
    {[mig |-> FALSE, parts |-> {}]} \cup
    {[mig |-> TRUE, parts |-> P] : P \in SUBSET (0..(MaxMigSlots - 1))}

\* the host's devices: device i is topo[i + 1]; parts are the partition
\* slots in use, which only a device in partitioned mode has
Topologies == UNION {[1..n -> DeviceKinds] : n \in 0..MaxDevices}
SmallTopologies == {t \in Topologies : Len(t) <= 1}

FormatFlags ==
    {[isSet |-> FALSE, value |-> formatYAML]} \cup
    {[isSet |-> TRUE, value |-> v] :
        v \in {formatJSON, formatYAML, <<"J", "S", "O", "N">>, <<"x", "m", "l">>}}

OutputPaths ==
    { <<>>,
      <<"o", ".", "j", "s", "o", "n">>,
      <<"o", ".", "y", "a", "m", "l">>,
      <<"o", ".", "y", "m", "l">>,
      <<"o", ".", "Y", "A", "M", "L">>,
      <<"o", ".", "t", "x", "t">>,
      <<"d", ".", "j", "s", "o", "n", "/", "o">>,
      <<"o", ".", "j", "s", "o", "n", ".", "y", "m", "l">> }

GenerateFlags == [format : FormatFlags, output : OutputPaths]
SmallGenerateFlags ==
    {[format |-> [isSet |-> FALSE, value |-> formatYAML], output |-> <<>>],
     [format |-> [isSet |-> TRUE, value |-> formatJSON],
      output |-> <<"o", ".", "y", "a", "m", "l">>]}

\* the subcommands commands.New registers
RegisteredCommands == {"update-ldcache", "create-symlinks", "chmod"}
HookNames == RegisteredCommands \cup {"", "create-soname-symlinks", "bogus"}
HookArgs == [name : HookNames, debug : BOOLEAN, quiet : BOOLEAN]

NoSpec == [valid |-> FALSE, version |-> "", kind |-> "", devices |-> <<>>,
           containerEdits |-> EmptyEdits]
NoOut == [to |-> "none", stdout |-> <<>>, fileCreated |-> FALSE,
          file |-> <<"old">>, data |-> "none"]
NoHookArgs == [name |-> "", debug |-> FALSE, quiet |-> FALSE]
NoFlags == [format |-> [isSet |-> FALSE, value |-> formatYAML], output |-> <<>>]

\* The inputs are every topology with two flag settings, and every flag
\* setting with the topologies of at most one device.
Init ==
    /\ \/ /\ prog = "generate"
          /\ \/ topo \in Topologies /\ flags \in SmallGenerateFlags
             \/ topo \in SmallTopologies /\ flags \in GenerateFlags
          /\ hookArgs = NoHookArgs
          /\ pc = "validateFlags"
       \/ /\ prog = "hook"
          /\ topo = <<>>
          /\ flags = NoFlags
          /\ hookArgs \in HookArgs
          /\ pc = "hookBefore"
    \* build: the flag destinations hold the parsed values
    /\ cfg = [output |-> flags.output, format |-> flags.format.value]
    /\ nvml = [state |-> "uninit", inits |-> 0, shutdowns |-> 0,
               queries |-> 0, badQuery |-> FALSE]
    /\ idx = [i |-> 0, j |-> 0]
    /\ deviceSpecs = <<>>
    /\ allEdits = ZeroEdits
    /\ hookInput = [built |-> FALSE, devices |-> <<>>]
    /\ spec = NoSpec
    /\ err = ""
    /\ out = NoOut
    /\ log = {}
    /\ exitCode = -1
    /\ hook = [level |-> "info", action |-> "none"]

----------------------------------------------------------------------------
(* nvidia-ctk cdi generate *)

\* one call into the hardware library
Query(n) == [n EXCEPT !.queries = @ + 1,
                      !.badQuery = @ \/ n.state # "open"]

\* variant: Shutdown called on the success path only, not deferred
GenFail_NoShutdown(msg) ==
    /\ err' = msg
    /\ pc' = "runReturn"

\* generateSpec leaves with an error: the deferred Shutdown runs next
GenFail(msg) ==
    /\ err' = msg
    /\ pc' = "shutdown"

ValidFormat(f) == f \in {formatJSON, formatYAML}

validateFlags ==
    /\ pc = "validateFlags"
    /\ LET f == ToLower(cfg.format) IN
       /\ cfg' = [cfg EXCEPT !.format = f]
       /\ IF ValidFormat(f)
          THEN pc' = "nvmlInit" /\ err' = err
          ELSE pc' = "exit" /\ err' = "invalid output format"
    /\ UNCHANGED <<prog, flags, topo, nvml, idx, deviceSpecs, allEdits,
                   hookInput, spec, out, log, exitCode, hookArgs, hook>>

\* generateSpec, lines 273-279
nvmlInit ==
    /\ pc = "nvmlInit"
    /\ \E ok \in BOOLEAN :
        IF ok
        THEN /\ nvml' = [nvml EXCEPT !.state = "open", !.inits = @ + 1]
             /\ pc' = "visitDevices"
             /\ err' = err
        ELSE /\ nvml' = [nvml EXCEPT !.inits = @ + 1]
             /\ pc' = "runReturn"
             /\ err' = "nvml init failed"
    /\ UNCHANGED <<prog, flags, topo, cfg, idx, deviceSpecs, allEdits,
                   hookInput, spec, out, log, exitCode, hookArgs, hook>>

\* the entry the physical-device pass appends for device i
gpuDeviceSpec(i) == [name |-> gpuName(i), ContainerEdits |-> FullGPUEdits(i)]

\* variant: the partitioned-mode test is left out
skipsDevice_Never(d) == FALSE

\* line 345: a device in partitioned mode gets no entry of its own
skipsDevice(d) == d.mig

\* variant: the callback notes the failure and the walk goes on
DeviceFail_Skip(msg) ==
    /\ err' = msg
    /\ idx' = [idx EXCEPT !.i = @ + 1]
    /\ UNCHANGED <<pc, deviceSpecs>>

\* a failure inside a visitor callback is returned: the walk stops and
\* generateDeviceSpecs, then generateSpec, return it
DeviceFail(msg) ==
    /\ err' = msg
    /\ pc' = "shutdown"
    /\ UNCHANGED <<idx, deviceSpecs>>

\* the callback of VisitDevices for device idx.i
VisitDevice ==
    /\ pc = "visitDevices"
    /\ idx.i < Len(topo)
    /\ nvml' = Query(nvml)
    /\ \E r \in {"ok", "migQueryFail", "discovererFail", "editsFail"} :
        \/ /\ r = "migQueryFail"
           /\ DeviceFail("failed to check whether device is MIG device")
        \/ /\ r = "ok"
           /\ skipsDevice(topo[idx.i + 1])
           /\ idx' = [idx EXCEPT !.i = @ + 1]
           /\ UNCHANGED <<pc, err, deviceSpecs>>
        \/ /\ r = "discovererFail"
           /\ ~skipsDevice(topo[idx.i + 1])
           /\ DeviceFail("failed to create device")
        \/ /\ r = "editsFail"
           /\ ~skipsDevice(topo[idx.i + 1])
           /\ DeviceFail("failed to create container edits for device")
        \/ /\ r = "ok"
           /\ ~skipsDevice(topo[idx.i + 1])
           /\ deviceSpecs' = Append(deviceSpecs, gpuDeviceSpec(idx.i))
           /\ idx' = [idx EXCEPT !.i = @ + 1]
           /\ UNCHANGED <<pc, err>>
    /\ UNCHANGED <<prog, flags, topo, cfg, allEdits, hookInput, spec, out,
                   log, exitCode, hookArgs, hook>>

\* VisitDevices returns nil; VisitMigDevices starts
VisitDevicesDone ==
    /\ pc = "visitDevices"
    /\ idx.i = Len(topo)
    /\ pc' = "visitMigDevices"
    /\ idx' = [i |-> 0, j |-> 0]
    /\ UNCHANGED <<prog, flags, topo, cfg, nvml, deviceSpecs, allEdits,
                   hookInput, spec, err, out, log, exitCode, hookArgs, hook>>

\* the slot after (i, j) in the order VisitMigDevices walks them
NextSlot(x) ==
    IF x.j + 1 < MaxMigSlots THEN [x EXCEPT !.j = @ + 1]
    ELSE [i |-> x.i + 1, j |-> 0]

\* the entry the partition pass appends for partition j of device i
migDeviceSpec(i, j) ==
    [name |-> migName(i, j), ContainerEdits |-> MigDeviceEdits(i, j)]

\* VisitMigDevices at slot idx.j of device idx.i: an empty slot is passed
\* over, a partition is handed to the callback
VisitMigDevice ==
    /\ pc = "visitMigDevices"
    /\ idx.i < Len(topo)
    /\ nvml' = Query(nvml)
    /\ \E r \in {"ok", "discovererFail", "editsFail"} :
        \/ /\ r = "ok"
           /\ idx.j \notin topo[idx.i + 1].parts
           /\ idx' = NextSlot(idx)
           /\ UNCHANGED <<pc, err, deviceSpecs>>
        \/ /\ r = "discovererFail"
           /\ idx.j \in topo[idx.i + 1].parts
           /\ DeviceFail("failed to create MIG device")
        \/ /\ r = "editsFail"
           /\ idx.j \in topo[idx.i + 1].parts
           /\ DeviceFail("failed to create container edits for MIG device")
        \/ /\ r = "ok"
           /\ idx.j \in topo[idx.i + 1].parts
           /\ deviceSpecs' = Append(deviceSpecs, migDeviceSpec(idx.i, idx.j))
           /\ idx' = NextSlot(idx)
           /\ UNCHANGED <<pc, err>>
    /\ UNCHANGED <<prog, flags, topo, cfg, allEdits, hookInput, spec, out,
                   log, exitCode, hookArgs, hook>>

\* generateDeviceSpecs returns the list
VisitMigDevicesDone ==
    /\ pc = "visitMigDevices"
    /\ idx.i = Len(topo)
    /\ pc' = "createAllDevice"
    /\ UNCHANGED <<prog, flags, topo, cfg, nvml, idx, deviceSpecs, allEdits,
                   hookInput, spec, err, out, log, exitCode, hookArgs, hook>>

\* generateSpec, lines 286-290
CreateAllDevice ==
    /\ pc = "createAllDevice"
    /\ LET all == createAllDevice(deviceSpecs) IN
       IF all.panic
       THEN /\ err' = "panic: nil pointer dereference"
            /\ pc' = "shutdown"
            /\ UNCHANGED deviceSpecs
       ELSE /\ deviceSpecs' = Append(deviceSpecs, all.device)
            /\ pc' = "ipc"
            /\ UNCHANGED err
    /\ allEdits' = ZeroEdits
    /\ UNCHANGED <<prog, flags, topo, cfg, nvml, idx, hookInput, spec, out,
                   log, exitCode, hookArgs, hook>>

\* allEdits after the IPC discoverer's edits e were post-processed and appended
ipcAppend(e) == EditsAppend(allEdits, Wrap(AddNoexec(e)))

\* generateSpec, lines 292-306
IPC ==
    /\ pc = "ipc"
    /\ \E r \in {"ok", "discovererFail", "editsFail"} :
        \/ /\ r = "discovererFail"
           /\ GenFail("failed to create discoverer for IPC sockets")
           /\ UNCHANGED allEdits
        \/ /\ r = "editsFail"
           /\ GenFail("failed to create container edits for IPC sockets")
           /\ UNCHANGED allEdits
        \/ /\ r = "ok"
           /\ \E n \in 0..MaxSockets : allEdits' = ipcAppend(IPCEdits(n))
           /\ pc' = "common"
           /\ UNCHANGED err
    /\ UNCHANGED <<prog, flags, topo, cfg, nvml, idx, deviceSpecs, hookInput,
                   spec, out, log, exitCode, hookArgs, hook>>

\* generateSpec, lines 308-311: the common discoverer reads the driver
\* version through the session
Common ==
    /\ pc = "common"
    /\ nvml' = Query(nvml)
    /\ \E ok \in BOOLEAN :
        IF ok THEN pc' = "permissionHooks" /\ UNCHANGED err
        ELSE GenFail("failed to create discoverer for common entities")
    /\ UNCHANGED <<prog, flags, topo, cfg, idx, deviceSpecs, allEdits,
                   hookInput, spec, out, log, exitCode, hookArgs, hook>>

\* variant: the list as it was before "all" was appended
hookDevices_BeforeAll == SubSeq(deviceSpecs, 1, Len(deviceSpecs) - 1)

\* the device list handed to the permission-hook discoverer at line 313
hookDevices == deviceSpecs

\* generateSpec, lines 313-316
PermissionHookDiscoverer ==
    /\ pc = "permissionHooks"
    /\ \E ok \in BOOLEAN :
        IF ok
        THEN /\ hookInput' = [built |-> TRUE, devices |-> hookDevices]
             /\ pc' = "commonEdits"
             /\ UNCHANGED err
        ELSE /\ GenFail("failed to generated permission hooks for device nodes")
             /\ UNCHANGED hookInput
    /\ UNCHANGED <<prog, flags, topo, cfg, nvml, idx, deviceSpecs, allEdits,
                   spec, out, log, exitCode, hookArgs, hook>>

\* generateSpec, lines 318-323
CommonEdits ==
    /\ pc = "commonEdits"
    /\ \E ok \in BOOLEAN :
        IF ok
        THEN /\ allEdits' = EditsAppend(allEdits,
                    Wrap(MergedEdits(CommonDiscovered, PermissionHooks(hookInput.devices))))
             /\ pc' = "constructSpec"
             /\ UNCHANGED err
        ELSE /\ GenFail("failed to create container edits for common entities")
             /\ UNCHANGED allEdits
    /\ UNCHANGED <<prog, flags, topo, cfg, nvml, idx, deviceSpecs, hookInput,
                   spec, out, log, exitCode, hookArgs, hook>>

\* generateSpec, lines 327-334
ConstructSpec ==
    /\ pc = "constructSpec"
    /\ spec' = [valid |-> TRUE, version |-> "0.4.0", kind |-> "nvidia.com/gpu",
                devices |-> deviceSpecs, containerEdits |-> allEdits.e]
    /\ pc' = "shutdown"
    /\ UNCHANGED <<prog, flags, topo, cfg, nvml, idx, deviceSpecs, allEdits,
                   hookInput, err, out, log, exitCode, hookArgs, hook>>

Panicked == err = "panic: nil pointer dereference"

\* the deferred nvmllib.Shutdown of generateSpec: it runs on every way out
\* of the function after line 277, a panic included
Shutdown ==
    /\ pc = "shutdown"
    /\ nvml' = [nvml EXCEPT !.state = "closed", !.shutdowns = @ + 1]
    /\ pc' = IF Panicked THEN "crash" ELSE "runReturn"
    /\ UNCHANGED <<prog, flags, topo, cfg, idx, deviceSpecs, allEdits,
                   hookInput, spec, err, out, log, exitCode, hookArgs, hook>>

----------------------------------------------------------------------------
(* run, after generateSpec *)

\* the bytes written so far are a sequence of chunks
Marker == "---\n"
Payload(enc) == IF enc = "json" THEN "<json document>" ELSE "<yaml document>"

WriteTo(o, chunk) ==
    IF o.to = "stdout" THEN [o EXCEPT !.stdout = Append(@, chunk)]
    ELSE [o EXCEPT !.file = Append(@, chunk)]

\* run, lines 193-196
GenerateFailed ==
    /\ pc = "runReturn"
    /\ err # ""
    /\ pc' = "exit"
    /\ UNCHANGED <<prog, flags, topo, cfg, nvml, idx, deviceSpecs, allEdits,
                   hookInput, spec, err, out, log, exitCode, hookArgs, hook>>

\* run, lines 198-212
OpenOutput ==
    /\ pc = "runReturn"
    /\ err = ""
    /\ IF cfg.output = <<>>
       THEN /\ out' = [out EXCEPT !.to = "stdout"]
            /\ pc' = "resolveFormat"
            /\ UNCHANGED err
       ELSE \E r \in {"ok", "mkdirFail", "createFail"} :
            \/ /\ r = "mkdirFail"
               /\ err' = "failed to create parent folders for output file"
               /\ pc' = "exit"
               /\ UNCHANGED out
            \/ /\ r = "createFail"
               /\ err' = "failed to create output file"
               /\ pc' = "exit"
               /\ UNCHANGED out
            \/ /\ r = "ok"
               /\ out' = [out EXCEPT !.to = "file", !.fileCreated = TRUE,
                                     !.file = <<>>]
               /\ pc' = "resolveFormat"
               /\ UNCHANGED err
    /\ UNCHANGED <<prog, flags, topo, cfg, nvml, idx, deviceSpecs, allEdits,
                   hookInput, spec, log, exitCode, hookArgs, hook>>

\* c.IsSet("format")
IsSetFormat == flags.format.isSet

\* variant: the file name's format overrides the flag
resolvedFormat_ExtensionWins(f) ==
    IF f # <<>> THEN f ELSE cfg.format

\* cfg.format after lines 214-221, for the format f the file name implies
resolvedFormat(f) ==
    IF f # <<>> /\ ~IsSetFormat THEN f ELSE cfg.format

\* whether line 219 logs the mismatch warning
warnsMismatch(f) == f # <<>> /\ IsSetFormat /\ f # cfg.format

MismatchWarning == "warning: requested output format does not match file name"

\* run, lines 214-221
ResolveFormat ==
    /\ pc = "resolveFormat"
    /\ LET f == formatFromFilename(cfg.output) IN
       /\ cfg' = [cfg EXCEPT !.format = resolvedFormat(f)]
       /\ log' = log \cup (IF f # <<>> THEN {"debug: inferred output format"} ELSE {})
                     \cup (IF warnsMismatch(f) THEN {MismatchWarning} ELSE {})
    /\ pc' = "marshal"
    /\ UNCHANGED <<prog, flags, topo, nvml, idx, deviceSpecs, allEdits,
                   hookInput, spec, err, out, exitCode, hookArgs, hook>>

\* whether line 228 transcodes the YAML to JSON
transcodes(format) == ToLower(format) = formatJSON

\* run, lines 223-233
Marshal ==
    /\ pc = "marshal"
    /\ \E r \in {"ok", "marshalFail", "transcodeFail"} :
        \/ /\ r = "marshalFail"
           /\ err' = "failed to marshal CDI spec"
           /\ pc' = "exit"
           /\ UNCHANGED out
        \/ /\ r = "transcodeFail"
           /\ transcodes(cfg.format)
           /\ err' = "failed to convert CDI spec from YAML to JSON"
           /\ pc' = "exit"
           /\ UNCHANGED out
        \/ /\ r = "ok"
           /\ out' = [out EXCEPT !.data =
                        IF transcodes(cfg.format) THEN "json" ELSE "yaml"]
           /\ pc' = "write"
           /\ UNCHANGED err
    /\ UNCHANGED <<prog, flags, topo, cfg, nvml, idx, deviceSpecs, allEdits,
                   hookInput, spec, log, exitCode, hookArgs, hook>>

\* variant: the separator is written for every format
writesMarker_Always(format) == TRUE

\* whether writeToOutput writes the separator first
writesMarker(format) == format = formatYAML

\* writeToOutput, called at line 235
WriteToOutput ==
    /\ pc = "write"
    /\ LET marked == IF writesMarker(cfg.format) THEN WriteTo(out, Marker) ELSE out IN
       \E r \in {"ok", "markerFail", "dataFail"} :
        \/ /\ r = "markerFail"
           /\ writesMarker(cfg.format)
           /\ err' = "failed to write YAML separator"
           /\ UNCHANGED out
        \/ /\ r = "dataFail"
           /\ err' = "failed to write data"
           /\ out' = marked
        \/ /\ r = "ok"
           /\ out' = WriteTo(marked, Payload(out.data))
           /\ UNCHANGED err
    /\ pc' = "exit"
    /\ UNCHANGED <<prog, flags, topo, cfg, nvml, idx, deviceSpecs, allEdits,
                   hookInput, spec, log, exitCode, hookArgs, hook>>

\* the command returns to the nvidia-ctk entry point: an error is reported
\* and the process exits non-zero
GenerateExit ==
    /\ pc = "exit"
    /\ prog = "generate"
    /\ exitCode' = IF err = "" THEN 0 ELSE 1
    /\ log' = log \cup (IF err = "" THEN {} ELSE {"error: " \o err})
    /\ pc' = "done"
    /\ UNCHANGED <<prog, flags, topo, cfg, nvml, idx, deviceSpecs, allEdits,
                   hookInput, spec, err, out, hookArgs, hook>>

\* an unrecovered panic ends the process with the runtime's exit code
Crash ==
    /\ pc = "crash"
    /\ exitCode' = 2
    /\ pc' = "done"
    /\ UNCHANGED <<prog, flags, topo, cfg, nvml, idx, deviceSpecs, allEdits,
                   hookInput, spec, err, out, log, hookArgs, hook>>

----------------------------------------------------------------------------
(* nvidia-cdi-hook *)

\* main, lines 53-63
logLevel(a) ==
    IF a.quiet THEN "error" ELSE IF a.debug THEN "debug" ELSE "info"

HookBefore ==
    /\ pc = "hookBefore"
    /\ hook' = [hook EXCEPT !.level = logLevel(hookArgs)]
    /\ pc' = "hookDispatch"
    /\ UNCHANGED <<prog, flags, topo, cfg, nvml, idx, deviceSpecs, allEdits,
                   hookInput, spec, err, out, log, exitCode, hookArgs>>

UnsupportedHookWarning == "warning: unsupported hook"

\* variant: the default Action returns an error
DefaultActionError_Fails == "unsupported hook"

\* the error the default Action returns (nil)
DefaultActionError == ""

\* main, lines 71-74
DefaultAction ==
    /\ pc = "hookDispatch"
    /\ hookArgs.name \notin RegisteredCommands
    /\ log' = log \cup {UnsupportedHookWarning}
    /\ hook' = [hook EXCEPT !.action = "default"]
    /\ err' = DefaultActionError
    /\ pc' = "exit"
    /\ UNCHANGED <<prog, flags, topo, cfg, nvml, idx, deviceSpecs, allEdits,
                   hookInput, spec, out, exitCode, hookArgs>>

\* main, line 76: a registered subcommand runs and may fail
Subcommand ==
    /\ pc = "hookDispatch"
    /\ hookArgs.name \in RegisteredCommands
    /\ hook' = [hook EXCEPT !.action = hookArgs.name]
    /\ \E ok \in BOOLEAN : err' = IF ok THEN "" ELSE "hook failed"
    /\ pc' = "exit"
    /\ UNCHANGED <<prog, flags, topo, cfg, nvml, idx, deviceSpecs, allEdits,
                   hookInput, spec, out, log, exitCode, hookArgs>>

\* main, lines 97-101
HookExit ==
    /\ pc = "exit"
    /\ prog = "hook"
    /\ exitCode' = IF err # "" THEN 1 ELSE 0
    /\ log' = log \cup (IF err # "" THEN {"error: " \o err} ELSE {})
    /\ pc' = "done"
    /\ UNCHANGED <<prog, flags, topo, cfg, nvml, idx, deviceSpecs, allEdits,
                   hookInput, spec, err, out, hookArgs, hook>>

----------------------------------------------------------------------------

Next ==
    \/ validateFlags
    \/ nvmlInit
    \/ VisitDevice
    \/ VisitDevicesDone
    \/ VisitMigDevice
    \/ VisitMigDevicesDone
    \/ CreateAllDevice
    \/ IPC
    \/ Common
    \/ PermissionHookDiscoverer
    \/ CommonEdits
    \/ ConstructSpec
    \/ Shutdown
    \/ GenerateFailed
    \/ OpenOutput
    \/ ResolveFormat
    \/ Marshal
    \/ WriteToOutput
    \/ GenerateExit
    \/ Crash
    \/ HookBefore
    \/ DefaultAction
    \/ Subcommand
    \/ HookExit

Spec == Init /\ [][Next]_vars

----------------------------------------------------------------------------
(* What the claims are stated with *)

Names(ds) == [k \in 1..Len(ds) |-> ds[k].name]
Occurrences(ds, name) == Cardinality({k \in 1..Len(ds) : ds[k].name = name})
Range(s) == {s[k] : k \in 1..Len(s)}
EndsWith(s, suffix) ==
    /\ Len(s) >= Len(suffix)
    /\ SubSeq(s, Len(s) - Len(suffix) + 1, Len(s)) = suffix
FormatName(f) ==
    IF f = <<"j", "s", "o", "n">> THEN "json"
    ELSE IF f = <<"y", "a", "m", "l">> THEN "yaml"
    ELSE "other"

\* the format the flag asks for and the one the output path's extension implies
RequestedByFlag == FormatName(ToLower(flags.format.value))
ImpliedByPath ==
    LET p == ToLower(flags.output) IN
    IF EndsWith(p, <<".", "j", "s", "o", "n">>) THEN "json"
    ELSE IF EndsWith(p, <<".", "y", "a", "m", "l">>) \/ EndsWith(p, <<".", "y", "m", "l">>)
         THEN "yaml"
    ELSE ""
ExpectedEncoding ==
    IF flags.format.isSet THEN RequestedByFlag
    ELSE IF ImpliedByPath # "" THEN ImpliedByPath
    ELSE "yaml"

\* run is past lines 214-221
FormatResolved == prog = "generate" /\ (pc \in {"marshal", "write"} \/ out.data # "none")

\* generateDeviceSpecs has returned its list
Enumerated ==
    /\ prog = "generate"
    /\ \/ pc \in {"createAllDevice", "ipc", "common", "permissionHooks",
                  "commonEdits", "constructSpec"}
       \/ spec.valid

\* createAllDevice has been called
CreateAllDeviceCalled ==
    /\ prog = "generate"
    /\ \/ pc \in {"ipc", "common", "permissionHooks", "commonEdits", "constructSpec"}
       \/ spec.valid
       \/ Panicked

\* generateSpec has returned or was unwound
GenerateSpecLeft ==
    /\ prog = "generate"
    /\ \/ pc \in {"runReturn", "crash", "resolveFormat", "marshal", "write"}
       \/ pc \in {"exit", "done"} /\ err # "invalid output format"

DeviceErrors ==
    {"failed to check whether device is MIG device",
     "failed to create device",
     "failed to create container edits for device",
     "failed to create MIG device",
     "failed to create container edits for MIG device"}

NonPartitioned == {i \in 0..(Len(topo) - 1) : ~topo[i + 1].mig}
Partitions == {x \in (0..(Len(topo) - 1)) \X (0..(MaxMigSlots - 1)) :
                  x[2] \in topo[x[1] + 1].parts}

RECURSIVE ConcatField(_, _)
ConcatField(ds, f) ==
    IF ds = <<>> THEN <<>>
    ELSE Head(ds).ContainerEdits[f] \o ConcatField(Tail(ds), f)

\* the bytes at the destination run chose
Dest == IF out.to = "stdout" THEN out.stdout ELSE out.file

----------------------------------------------------------------------------
(* Claims *)

\* C1: an invocation of the hook dispatcher whose operation name is not a
\* registered subcommand runs the default action, which issues the
\* unsupported-hook warning and returns no error; the process exits 0 and
\* the Errorf / os.Exit(1) path is not taken, whatever debug and quiet are.
C1_UnknownHookExitsZero ==
    (prog = "hook" /\ hookArgs.name \notin RegisteredCommands) =>
        /\ pc \in {"exit", "done"} =>
              /\ hook.action = "default"
              /\ "warning: unsupported hook" \in log
              /\ err = ""
        /\ pc = "done" => exitCode = 0
        /\ exitCode # 1
        /\ log \subseteq {"warning: unsupported hook"}

C1_Witness ==
    /\ prog = "hook"
    /\ hookArgs.name = "bogus"
    /\ hookArgs.quiet
    /\ hookArgs.debug
    /\ hook.level = "error"
    /\ pc = "done"
    /\ exitCode = 0

\* C2: once run has resolved the format, the encoding is the flag's value
\* when the flag is set, else the one the output path's extension implies,
\* else yaml; the mismatch warning is logged exactly when the flag is set,
\* the extension is recognised and the two disagree.
C2_EncodingChoice ==
    (FormatResolved /\ RequestedByFlag # "other") =>
        /\ FormatName(cfg.format) = ExpectedEncoding
        /\ out.data # "none" => out.data = ExpectedEncoding
        /\ (MismatchWarning \in log) <=>
              (flags.format.isSet /\ ImpliedByPath # "" /\ ImpliedByPath # RequestedByFlag)

C2_Witness ==
    /\ prog = "generate"
    /\ pc = "done"
    /\ exitCode = 0
    /\ flags.format = [isSet |-> TRUE, value |-> <<"j", "s", "o", "n">>]
    /\ flags.output = <<"o", ".", "y", "a", "m", "l">>
    /\ out.file = <<"<json document>">>
    /\ MismatchWarning \in log

\* C3: when generateDeviceSpecs succeeds, a device in partitioned mode has
\* no "gpu<i>" entry, every other device i has exactly one entry "gpu<i>",
\* and every partition j of device i has exactly one entry "mig<i>:<j>".
C3_EntriesPerDevice ==
    Enumerated =>
        LET ds == IF spec.valid THEN spec.devices ELSE deviceSpecs IN
        \A i \in 0..(Len(topo) - 1) :
            /\ topo[i + 1].mig => Occurrences(ds, "gpu" \o ToString(i)) = 0
            /\ ~topo[i + 1].mig => Occurrences(ds, "gpu" \o ToString(i)) = 1
            /\ \A j \in topo[i + 1].parts :
                  Occurrences(ds, "mig" \o ToString(i) \o ":" \o ToString(j)) = 1

C3_Witness ==
    /\ spec.valid
    /\ Len(topo) = 2
    /\ topo[1] = [mig |-> TRUE, parts |-> {0, 1}]
    /\ ~topo[2].mig
    /\ Names(spec.devices) = <<"gpu1", "mig0:0", "mig0:1", "all">>

\* C4: for every list of N >= 0 per-device specs, the empty list included,
\* createAllDevice returns a device named "all" whose edits are the
\* concatenation, in order, of the N devices' edits.
C4_AllIsOrderedFold ==
    CreateAllDeviceCalled =>
        /\ Len(deviceSpecs) >= 1
        /\ LET all == deviceSpecs[Len(deviceSpecs)]
               rest == SubSeq(deviceSpecs, 1, Len(deviceSpecs) - 1)
           IN /\ all.name = "all"
              /\ \A f \in {"env", "deviceNodes", "hooks", "mounts"} :
                    all.ContainerEdits[f] = ConcatField(rest, f)

\* the same for the lists createAllDevice returns from (N >= 1)
AllIsOrderedFoldWhenReturned ==
    (CreateAllDeviceCalled /\ ~Panicked) =>
        /\ Len(deviceSpecs) >= 2
        /\ LET all == deviceSpecs[Len(deviceSpecs)]
               rest == SubSeq(deviceSpecs, 1, Len(deviceSpecs) - 1)
           IN /\ all.name = "all"
              /\ \A f \in {"env", "deviceNodes", "hooks", "mounts"} :
                    all.ContainerEdits[f] = ConcatField(rest, f)

\* C5: when the partition-mode query, the discoverer or the edits of one
\* device or partition fail, no later device becomes an entry, no spec is
\* returned, nothing is written to standard output, the output file is not
\* created or truncated, and the process exits non-zero.
C5_DeviceFailureAborts ==
    /\ [](err \in DeviceErrors =>
            /\ ~spec.valid
            /\ out = NoOut
            /\ pc \in {"shutdown", "runReturn", "exit", "done"}
            /\ pc = "done" => exitCode = 1)
    /\ [][(err \in DeviceErrors) => (deviceSpecs' = deviceSpecs /\ out' = out)]_vars

C5_Witness ==
    /\ pc = "done"
    /\ exitCode = 1
    /\ err = "failed to create container edits for MIG device"
    /\ flags.output # <<>>
    /\ Names(deviceSpecs) = <<"gpu0", "mig1:0">>
    /\ idx = [i |-> 1, j |-> 1]
    /\ 1 \in topo[2].parts
    /\ out.file = <<"old">>

\* C6: generateSpec opens the hardware session at most once and before any
\* query, no query is made outside the open session, and once generateSpec
\* is left the session has been closed exactly once if it was opened; when
\* the open fails no query is made and no spec is returned.
C6_SessionScoped ==
    prog = "generate" =>
        /\ nvml.inits <= 1
        /\ nvml.shutdowns <= 1
        /\ ~nvml.badQuery
        /\ nvml.state = "uninit" => (nvml.queries = 0 /\ nvml.shutdowns = 0)
        /\ GenerateSpecLeft =>
              IF err = "nvml init failed"
              THEN nvml.state = "uninit" /\ ~spec.valid
              ELSE nvml.state = "closed" /\ nvml.shutdowns = 1 /\ nvml.inits = 1

C6_Witness ==
    /\ pc = "done"
    /\ err = "failed to create container edits for common entities"
    /\ nvml.state = "closed"
    /\ nvml.shutdowns = 1
    /\ nvml.queries >= 3

\* C7: in a returned spec the device names are pairwise distinct and the
\* list has one "gpu<i>" per non-partitioned device, one "mig<i>:<j>" per
\* partition and one "all", which is last: n + m + 1 entries.
C7_UniqueNames ==
    spec.valid =>
        LET ds == spec.devices IN
        /\ Len(ds) = Cardinality(NonPartitioned) + Cardinality(Partitions) + 1
        /\ \A k, l \in 1..Len(ds) : k # l => ds[k].name # ds[l].name
        /\ ds[Len(ds)].name = "all"
        /\ Range(Names(ds)) =
              {"gpu" \o ToString(i) : i \in NonPartitioned}
              \cup {"mig" \o ToString(x[1]) \o ":" \o ToString(x[2]) : x \in Partitions}
              \cup {"all"}

C7_Witness ==
    /\ spec.valid
    /\ Cardinality(NonPartitioned) = 2
    /\ Partitions = {}
    /\ Names(spec.devices) = <<"gpu0", "gpu1", "all">>

\* C8: the destination never holds a JSON payload after a marker nor a YAML
\* payload without one, and after a successful run it holds the marker and
\* then the YAML payload when the resolved encoding is yaml, and the JSON
\* payload alone when it is json.
C8_MarkerIffYaml ==
    prog = "generate" =>
        /\ \A k \in 1..Len(Dest) :
              /\ Dest[k] = "<json document>" => k = 1
              /\ Dest[k] = "<yaml document>" => (k = 2 /\ Dest[1] = "---\n")
        /\ (pc = "done" /\ exitCode = 0) =>
              Dest = IF ExpectedEncoding = "yaml"
                     THEN <<"---\n", "<yaml document>">>
                     ELSE <<"<json document>">>

C8_Witness ==
    /\ prog = "generate"
    /\ pc = "done"
    /\ exitCode = 0
    /\ flags.format.value = <<"J", "S", "O", "N">>
    /\ flags.output = <<"o", ".", "y", "m", "l">>
    /\ out.to = "file"
    /\ Dest = <<"<json document>">>

\* C9: in a returned spec every mount of the IPC discoverer has "noexec"
\* after the options it was discovered with, the mounts of the common
\* discoverer keep their options, and the IPC mounts come before them.
C9_IpcMountsNoexec ==
    spec.valid =>
        LET ms == spec.containerEdits.mounts IN
        /\ \A k \in 1..Len(ms) :
              /\ ms[k].from = "ipc" =>
                    ms[k].options = <<"ro", "nosuid", "nodev", "bind", "noexec">>
              /\ ms[k].from = "common" =>
                    ms[k].options = <<"ro", "nosuid", "nodev", "bind">>
        /\ \A k, l \in 1..Len(ms) :
              (ms[k].from = "ipc" /\ ms[l].from = "common") => k < l
        /\ Names(spec.containerEdits.hooks) = <<"update-ldcache", "chmod">>

C9_Witness ==
    /\ spec.valid
    /\ Len(spec.containerEdits.mounts) = 2
    /\ spec.containerEdits.mounts[1].from = "ipc"
    /\ spec.containerEdits.mounts[2].from = "common"

\* C10: the permission-hook discoverer is built after both passes and after
\* "all" was appended, the list it is given is the final device list, and
\* the device list does not change once it is built.
C10_HooksAfterEnumeration ==
    prog = "generate" =>
        /\ hookInput.built =>
              /\ pc \notin {"validateFlags", "nvmlInit", "visitDevices",
                            "visitMigDevices", "createAllDevice", "ipc",
                            "common", "permissionHooks"}
              /\ idx.i = Len(topo)
              /\ hookInput.devices = deviceSpecs
              /\ deviceSpecs[Len(deviceSpecs)].name = "all"
        /\ spec.valid =>
              /\ hookInput.built
              /\ spec.devices = hookInput.devices
              /\ \A k \in 1..Len(spec.devices) :
                    \A h \in Range(spec.containerEdits.hooks) :
                        h.name = "chmod" =>
                            Range(spec.devices[k].ContainerEdits.deviceNodes)
                                \subseteq Range(h.args)

C10_Witness ==
    /\ spec.valid
    /\ hookInput.built
    /\ Names(hookInput.devices) = <<"gpu0", "mig1:1", "all">>

====
